---- MODULE Spec2Model ----
(***************************************************************************)
(* The Greeter examples of _notebooks: greeter.py (plain class),           *)
(* dill_modules/greeter2.py (classmethod factory `dillable`) and           *)
(* dill_modules/greeter3.py (construction hook `__new__`), together with   *)
(* the helper `_mainify` that re-executes an object's source inside the    *)
(* __main__ namespace.                                                     *)
(*                                                                         *)
(* Objects (functions and classes) live in a heap and have identity: the   *)
(* heap index.  exec() of a definition's source creates a NEW object.      *)
(* An interpreter state `st` is threaded through the statements of a call: *)
(*   heap  the objects,  main  __main__.__dict__ (name -> heap index),     *)
(*   exc   the exception in flight,  ev  the steps taken,                  *)
(*   val   the value the call evaluates to (an instance).                  *)
(***************************************************************************)
EXTENDS Naturals, Sequences, FiniteSets

VARIABLES heap, main, ret, exc, out, events, last

vars == <<heap, main, ret, exc, out, events, last>>

-----------------------------------------------------------------------------
(* Bounds of the model *)

\* longest provider list handed to a constructor or factory
MaxLen == 2

-----------------------------------------------------------------------------
(* The objects that exist before any call *)

MAIN == "__main__"

Func(name, module, src, text) ==
    [kind |-> "function", name |-> name, module |-> module, src |-> src, body |-> text]

Class(module, variant) ==
    [kind |-> "class", name |-> "Greeter", module |-> module, src |-> TRUE, body |-> variant]

\* def greeting1(): return "Booyaa!"
greeting1 == Func("greeting1", "greeter2", TRUE, "Booyaa!")

\* def greeting2(): return "Howdy!"
greeting2 == Func("greeting2", "greeter3", TRUE, "Howdy!")

\* class Greeter of greeter.py: __init__ and greet only
GreeterPlain == Class("greeter", "plain")

\* class Greeter of greeter2.py: adds the classmethod dillable and _mainify
GreeterA == Class("greeter2", "dillable")

\* class Greeter of greeter3.py: adds __new__ and _mainify
GreeterB == Class("greeter3", "__new__")

\* Other providers a caller may pass: one of another module that shares the name
\* greeting1, one whose source cannot be retrieved, one defined in __main__.
OtherGreeting1 == Func("greeting1", "salutations", TRUE, "Hi!")
NoSourceGreeting == Func("greeting3", "generated", FALSE, "Yo!")
MainGreeting2 == Func("greeting2", MAIN, FALSE, "Hey!")

Originals ==
    << greeting1, greeting2, OtherGreeting1, NoSourceGreeting, MainGreeting2,
       GreeterPlain, GreeterA, GreeterB >>

\* the heap index of an object that exists before any call
IdOf(object) == CHOOSE i \in 1..Len(Originals) : Originals[i] = object

idGreeting1 == IdOf(greeting1)
idGreeting2 == IdOf(greeting2)
idOther1 == IdOf(OtherGreeting1)
idNoSource == IdOf(NoSourceGreeting)
idMain2 == IdOf(MainGreeting2)
idPlain == IdOf(GreeterPlain)
idA == IdOf(GreeterA)
idB == IdOf(GreeterB)

Providers == {idGreeting1, idGreeting2, idOther1, idNoSource, idMain2}

Names == {"Greeter", "greeting1", "greeting2", "greeting3"}

\* a name that is not bound
Unbound == 0

NoExc == "none"

\* no instance
NoObj == [cls |-> 0, has |-> FALSE, greetings |-> << >>]

\* an optional argument: << >> is None, <<x>> is x
None == << >>
Some(x) == <<x>>

RECURSIVE ListsUpTo(_)
ListsUpTo(n) ==
    IF n = 0 THEN {<< >>}
    ELSE LET shorter == ListsUpTo(n - 1)
         IN shorter \cup {Append(l, p) : l \in {s \in shorter : Len(s) = n - 1}, p \in Providers}

GreetingLists == ListsUpTo(MaxLen)

\* __main__ before the first call: each name unbound, imported from its module,
\* or (greeting2) defined in __main__ itself
StartNamespaces ==
    { [n \in Names |->
          CASE n = "Greeter" -> g
            [] n = "greeting1" -> a
            [] n = "greeting2" -> b
            [] OTHER -> Unbound]
      : g \in {Unbound, idA, idB}, a \in {Unbound, idGreeting1}, b \in {Unbound, idMain2} }

-----------------------------------------------------------------------------
(* The interpreter's steps *)

Start(h, m) == [heap |-> h, main |-> m, exc |-> NoExc, ev |-> << >>, val |-> NoObj]

Raise(st, e) == [st EXCEPT !.exc = e]

Log(st, op, id, name) ==
    [st EXCEPT !.ev = Append(@, [op |-> op, id |-> id, name |-> name])]

\* (faulty variant) relocates obj itself instead of running its source:
\* obj.__module__ = "__main__"; setattr(__main__, obj.__name__, obj)
exec_in_place(st, obj) ==
    [Log(st, "exec", obj, st.heap[obj].name) EXCEPT
        !.heap = [@ EXCEPT ![obj].module = MAIN],
        !.main = [@ EXCEPT ![st.heap[obj].name] = obj]]

\* (faulty variant) empties __main__.__dict__ before running the source in it
exec_clearing(st, obj) ==
    LET src == st.heap[obj]
        new == [src EXCEPT !.module = MAIN, !.src = FALSE]
        id == Len(st.heap) + 1
    IN [Log(st, "exec", id, src.name) EXCEPT
            !.heap = Append(@, new),
            !.main = [n \in Names |-> IF n = src.name THEN id ELSE Unbound]]

\* inspect.getsource(obj); compile(s, '<string>', 'exec'); exec(co, __main__.__dict__):
\* the definition runs in __main__, which makes a new object whose module of
\* origin is __main__ and binds the definition's name to it.
exec(st, obj) ==
    LET src == st.heap[obj]
        new == [src EXCEPT !.module = MAIN, !.src = FALSE]
        id == Len(st.heap) + 1
    IN [Log(st, "exec", id, src.name) EXCEPT
            !.heap = Append(@, new),
            !.main = [@ EXCEPT ![src.name] = id]]

getsource(st, obj) ==
    LET s == Log(st, "getsource", obj, st.heap[obj].name)
    IN IF st.heap[obj].src THEN s ELSE Raise(s, "OSError")

\* (faulty variant) re-executes the source without looking at obj.__module__
_mainify_unchecked(st, obj) ==
    IF st.exc # NoExc THEN st
    ELSE LET s1 == getsource(Log(st, "_mainify", obj, st.heap[obj].name), obj)
         IN IF s1.exc # NoExc THEN s1 ELSE exec(s1, obj)

\* (faulty variant) swallows the source facility's error and carries on
_mainify_swallowing(st, obj) ==
    IF st.exc # NoExc THEN st
    ELSE LET s0 == Log(st, "_mainify", obj, st.heap[obj].name)
         IN IF s0.heap[obj].module # MAIN
            THEN LET s1 == getsource(s0, obj)
                 IN IF s1.exc # NoExc THEN s0 ELSE exec(s1, obj)
            ELSE s0

\* Greeter._mainify(obj)
_mainify(st, obj) ==
    IF st.exc # NoExc THEN st
    ELSE LET s0 == Log(st, "_mainify", obj, st.heap[obj].name)
         IN IF s0.heap[obj].module # MAIN
            THEN LET s1 == getsource(s0, obj)
                 IN IF s1.exc # NoExc THEN s1 ELSE exec(s1, obj)
            ELSE s0

\* cls._mainify exists on the classes of greeter2 and greeter3 only
HasMainify(st, cls) == st.heap[cls].body \in {"dillable", "__new__"}

\* for greeting in greetings: cls._mainify(greeting)
RECURSIVE mainify_each(_, _, _)
mainify_each(st, cls, greetings) ==
    IF st.exc # NoExc \/ greetings = << >> THEN st
    ELSE IF ~HasMainify(st, cls) THEN Raise(Log(st, "cls._mainify", cls, "_mainify"), "AttributeError")
    ELSE mainify_each(_mainify(st, Head(greetings)), cls, Tail(greetings))

\* getattr(__main__, name)
getattr(st, name) ==
    IF st.exc # NoExc THEN st
    ELSE LET s == Log(st, "getattr", st.main[name], name)
         IN IF st.main[name] = Unbound THEN Raise(s, "AttributeError") ELSE s

\* [getattr(__main__, greeting.__name__) for greeting in greetings]: the steps
RECURSIVE getattr_each(_, _)
getattr_each(st, greetings) ==
    IF st.exc # NoExc \/ greetings = << >> THEN st
    ELSE getattr_each(getattr(st, st.heap[Head(greetings)].name), Tail(greetings))

\* (faulty variant) looks every provider up under the first provider's name
Looked_by_first_name(st, greetings) ==
    [i \in 1..Len(greetings) |-> st.main[st.heap[greetings[1]].name]]

\* ... and its value
Looked(st, greetings) ==
    [i \in 1..Len(greetings) |-> st.main[st.heap[greetings[i]].name]]

\* object.__new__(cls)
object_new(st, cls) ==
    IF st.exc # NoExc THEN st
    ELSE [Log(st, "object.__new__", cls, st.heap[cls].name) EXCEPT
              !.val = [cls |-> cls, has |-> FALSE, greetings |-> << >>]]

\* Greeter.__init__(self, greetings)
init(st, greetings) ==
    IF st.exc # NoExc THEN st
    ELSE [Log(st, "__init__", st.val.cls, st.heap[st.val.cls].name) EXCEPT
              !.val = [@ EXCEPT !.has = TRUE, !.greetings = greetings]]

\* (faulty variant) re-homes and redirects the class whether or not providers
\* were supplied
new_always_rehoming(st, cls, greetings) ==
    LET s1 == _mainify(st, cls)
        s2 == getattr(s1, s1.heap[cls].name)
        cls2 == IF s2.exc = NoExc THEN s2.main[s2.heap[cls].name] ELSE cls
        s3 == object_new(s2, cls2)
    IN IF greetings = None THEN s3
       ELSE LET gs == greetings[1]
                s4 == mainify_each(s3, cls2, gs)
                s5 == getattr_each(s4, gs)
            IN init(s5, Looked(s5, gs))

\* Greeter.__new__(cls, greetings=None) of greeter3.py
new(st, cls, greetings) ==
    LET s1 == IF greetings # None THEN _mainify(st, cls) ELSE st
        s2 == IF greetings # None THEN getattr(s1, s1.heap[cls].name) ELSE s1
        cls2 == IF greetings # None /\ s2.exc = NoExc
                THEN s2.main[s2.heap[cls].name] ELSE cls
        s3 == object_new(s2, cls2)
    IN IF greetings = None THEN s3
       ELSE LET gs == greetings[1]
                s4 == mainify_each(s3, cls2, gs)
                s5 == getattr_each(s4, gs)
            IN init(s5, Looked(s5, gs))

\* type.__call__: cls(greetings).  A class with a __new__ hook runs it, and the
\* runtime then calls __init__ with the caller's arguments when the object
\* returned is an instance of cls; other classes allocate and initialise.
call(st, cls, greetings) ==
    IF st.exc # NoExc THEN st
    ELSE IF st.heap[cls].body = "__new__"
    THEN LET s1 == new(st, cls, Some(greetings))
         IN IF s1.exc = NoExc /\ s1.val.cls = cls THEN init(s1, greetings) ELSE s1
    ELSE init(object_new(st, cls), greetings)

\* (faulty variant) constructs from the caller's providers, not the looked-up ones
dillable_unlooked(st, cls, greetings) ==
    LET s1 == mainify_each(st, cls, greetings)
        s2 == _mainify(s1, cls)
        s3 == getattr(s2, s2.heap[cls].name)
        s4 == getattr_each(s3, greetings)
    IN IF s4.exc # NoExc THEN s4
       ELSE call(s4, s4.main[s4.heap[cls].name], greetings)

\* (faulty variant) re-homes the class before the providers
dillable_class_first(st, cls, greetings) ==
    LET s1 == _mainify(st, cls)
        s2 == mainify_each(s1, cls, greetings)
        s3 == getattr(s2, s2.heap[cls].name)
        s4 == getattr_each(s3, greetings)
    IN IF s4.exc # NoExc THEN s4
       ELSE call(s4, s4.main[s4.heap[cls].name], Looked(s4, greetings))

\* Greeter.dillable(greetings) of greeter2.py
dillable(st, cls, greetings) ==
    LET s1 == mainify_each(st, cls, greetings)
        s2 == _mainify(s1, cls)
        s3 == getattr(s2, s2.heap[cls].name)
        s4 == getattr_each(s3, greetings)
    IN IF s4.exc # NoExc THEN s4
       ELSE call(s4, s4.main[s4.heap[cls].name], Looked(s4, greetings))

\* (faulty variant) walks the stored sequence from its end
RECURSIVE greet_reversed(_, _)
greet_reversed(h, greetings) ==
    IF greetings = << >> THEN << >>
    ELSE greet_reversed(h, Tail(greetings)) \o <<h[Head(greetings)].body>>

\* Greeter.greet(self): the lines written to standard output
RECURSIVE greet(_, _)
greet(h, greetings) ==
    IF greetings = << >> THEN << >>
    ELSE <<h[Head(greetings)].body>> \o greet(h, Tail(greetings))

-----------------------------------------------------------------------------
(* The operations a caller performs *)

Objects == 1..Len(heap)
ClassesOf(variant) ==
    {c \in Objects : heap[c].kind = "class" /\ heap[c].body = variant}

Now == Start(heap, main)

\* no call has been made since the caller last looked at the results
Idle ==
    [op |-> "idle", cls |-> 0, greetings |-> << >>, obj |-> 0,
     main0 |-> main, heap0 |-> heap, greeted |-> FALSE]

\* what the call just made was, and the state it started from
Last(op, cls, greetings, obj) ==
    [op |-> op, cls |-> cls, greetings |-> greetings, obj |-> obj,
     main0 |-> main, heap0 |-> heap, greeted |-> FALSE]

\* the state after a call: an exception leaves no value behind
Finish(st) ==
    /\ last.op = "idle"
    /\ heap' = st.heap
    /\ main' = st.main
    /\ exc' = st.exc
    /\ ret' = IF st.exc = NoExc THEN st.val ELSE NoObj
    /\ events' = st.ev
    /\ out' = << >>

\* Greeter._mainify(obj), called directly
Mainify(obj) ==
    /\ Finish([_mainify(Now, obj) EXCEPT !.val = NoObj])
    /\ last' = Last("_mainify", 0, << >>, obj)

\* Greeter(greetings) for the classes without a construction hook
Construct(cls, greetings) ==
    /\ Finish(call(Now, cls, greetings))
    /\ last' = Last("Greeter", cls, greetings, 0)

\* Variant A: Greeter.dillable(greetings)
Dillable(cls, greetings) ==
    /\ Finish(dillable(Now, cls, greetings))
    /\ last' = Last("dillable", cls, greetings, 0)

\* Variant B: Greeter(greetings) for the classes with the hook
ConstructB(cls, greetings) ==
    /\ Finish(call(Now, cls, greetings))
    /\ last' = Last("GreeterB", cls, greetings, 0)

\* Variant B without providers: Greeter.__new__(Greeter)
NewB(cls) ==
    /\ Finish(new(Now, cls, None))
    /\ last' = Last("__new__", cls, << >>, 0)

\* obj.greet() on the instance the call returned
Greet ==
    /\ last.op # "idle"
    /\ ~last.greeted
    /\ ret # NoObj
    /\ IF ret.has
       THEN /\ out' = greet(heap, ret.greetings)
            /\ exc' = NoExc
       ELSE /\ out' = << >>
            /\ exc' = "AttributeError"
    /\ last' = [last EXCEPT !.greeted = TRUE]
    /\ UNCHANGED <<heap, main, ret, events>>

\* The caller is done with the call's results and drops the instance.  Objects
\* that __main__ no longer binds are unreachable (callers name a class or a
\* provider through its module or through __main__) and are reclaimed; the
\* re-homed objects that remain are renumbered in the order of their names (a
\* heap index is an address, not a property of the program).
NameOrder == <<"Greeter", "greeting1", "greeting2", "greeting3">>

IsRehomed(n) == main[n] > Len(Originals)

LiveNames == SelectSeq(NameOrder, IsRehomed)

Slot(n) == CHOOSE i \in 1..Len(LiveNames) : LiveNames[i] = n

Discard ==
    /\ last.op # "idle"
    /\ heap' = SubSeq(heap, 1, Len(Originals))
                   \o [i \in 1..Len(LiveNames) |-> heap[main[LiveNames[i]]]]
    /\ main' = [n \in Names |->
                   IF IsRehomed(n) THEN Len(Originals) + Slot(n) ELSE main[n]]
    /\ ret' = NoObj
    /\ exc' = NoExc
    /\ out' = << >>
    /\ events' = << >>
    /\ last' = [Idle EXCEPT !.main0 = main', !.heap0 = heap']

Init ==
    /\ heap = Originals
    /\ main \in StartNamespaces
    /\ ret = NoObj
    /\ exc = NoExc
    /\ out = << >>
    /\ events = << >>
    /\ last = Idle

Next ==
    \/ \E obj \in Objects : Mainify(obj)
    \/ \E cls \in ClassesOf("plain") \cup ClassesOf("dillable"), gs \in GreetingLists :
          Construct(cls, gs)
    \/ \E cls \in ClassesOf("dillable"), gs \in GreetingLists : Dillable(cls, gs)
    \/ \E cls \in ClassesOf("__new__"), gs \in GreetingLists : ConstructB(cls, gs)
    \/ \E cls \in ClassesOf("__new__") : NewB(cls)
    \/ Greet
    \/ Discard

Spec == Init /\ [][Next]_vars

-----------------------------------------------------------------------------
(* Vocabulary of the properties *)

\* the interpreter state the last call started from
Pre == Start(last.heap0, last.main0)

\* the object as it was before the last call
Before(o) == last.heap0[o]

IsCall == last.op # "idle"
IsFactory == last.op \in {"dillable", "GreeterB"}
Returned == ret # NoObj

\* the text each provider of the list returned before the call
Texts(gs) == [i \in 1..Len(gs) |-> Before(gs[i]).body]

\* same name, same kind, same behaviour when called
Equivalent(a, b) == a.name = b.name /\ a.kind = b.kind /\ a.body = b.body

\* the ids (or names) of the events of the trace with one of the operations ops
OfOps(ops) == SelectSeq(events, LAMBDA e : e.op \in ops)
Ids(es) == [i \in 1..Len(es) |-> es[i].id]
IsPrefix(s, t) == Len(s) <= Len(t) /\ \A i \in 1..Len(s) : s[i] = t[i]
Positions(ops) == {i \in 1..Len(events) : events[i].op \in ops}
Before2(P, Q) == \A i \in P, j \in Q : i < j

\* a provider that _mainify must re-home but whose source cannot be retrieved
NoSource(o) == Before(o).module # MAIN /\ ~Before(o).src

-----------------------------------------------------------------------------
(* C1 *)

\* C1: a Greeter built by the direct constructor from [p1..pn] writes, on
\* greet(), exactly n lines, the i-th being the text pi() returns, in stored
\* order; greet() leaves the stored sequence as the constructor stored it.
C1_GreetWritesProvidersInOrder ==
    (last.op = "Greeter" /\ last.greeted) =>
        /\ exc = NoExc
        /\ Len(out) = Len(last.greetings)
        /\ \A i \in 1..Len(out) : out[i] = Before(last.greetings[i]).body
        /\ ret.has /\ ret.greetings = last.greetings

C1_Witness ==
    /\ last.op = "Greeter" /\ last.greeted
    /\ last.greetings = <<idGreeting1, idGreeting2>>
    /\ out = <<"Booyaa!", "Howdy!">>

-----------------------------------------------------------------------------
(* C2 *)

\* C2 as claimed: whenever a factory call of either variant returns, the
\* instance's class has __main__ as its module of origin and so has every
\* provider it stores.
C2_FactoryResultIsTopLevel ==
    (IsFactory /\ Returned) =>
        /\ heap[ret.cls].module = MAIN
        /\ \A i \in 1..Len(ret.greetings) : heap[ret.greetings[i]].module = MAIN

\* where the code does keep the promise: Variant A, and Variant B called on a
\* class that is not yet the top-level one
C2_HoldsUnlessCalledOnTopLevelHook ==
    (IsFactory /\ Returned /\ ~(last.op = "GreeterB" /\ Before(last.cls).module = MAIN)) =>
        /\ heap[ret.cls].module = MAIN
        /\ \A i \in 1..Len(ret.greetings) : heap[ret.greetings[i]].module = MAIN

-----------------------------------------------------------------------------
(* C3 *)

\* C3: after _mainify(obj) for an obj of another module with retrievable
\* source, __main__ binds obj's name to a definition equivalent to obj whose
\* module of origin is __main__; nothing is returned and obj itself is as it was.
C3_MainifyRegistersEquivalent ==
    (last.op = "_mainify" /\ Before(last.obj).module # MAIN /\ Before(last.obj).src) =>
        LET b == main[Before(last.obj).name]
        IN /\ exc = NoExc
           /\ b # Unbound
           /\ Equivalent(heap[b], Before(last.obj))
           /\ heap[b].module = MAIN
           /\ ret = NoObj
           /\ heap[last.obj] = Before(last.obj)
           /\ heap[last.obj].module # MAIN

C3_Witness ==
    /\ last.op = "_mainify" /\ last.obj = idB
    /\ main["Greeter"] > Len(Originals)
    /\ heap[main["Greeter"]].body = "__new__"

-----------------------------------------------------------------------------
(* C4 *)

\* obj was re-homed before the call: its name is bound in __main__ to a
\* top-level definition equivalent to it
AlreadyRehomed(o) ==
    /\ Before(o).module # MAIN
    /\ last.main0[Before(o).name] # Unbound
    /\ Before(last.main0[Before(o).name]).module = MAIN
    /\ Equivalent(Before(last.main0[Before(o).name]), Before(o))

\* _mainify on an object of __main__ changes no binding and does not ask for
\* the source
MainifyOfMainIsNoOp ==
    (last.op = "_mainify" /\ Before(last.obj).module = MAIN) =>
        /\ exc = NoExc
        /\ main = last.main0
        /\ heap = last.heap0
        /\ Positions({"getsource", "exec"}) = {}

\* C4 as claimed: a second _mainify of a re-homed object raises nothing and
\* leaves its name bound to the same object as after the first call; and
\* _mainify of an object of __main__ is a no-op.
C4_SecondMainifyKeepsBinding ==
    /\ (last.op = "_mainify" /\ AlreadyRehomed(last.obj)) =>
          /\ exc = NoExc
          /\ main[Before(last.obj).name] = last.main0[Before(last.obj).name]
    /\ MainifyOfMainIsNoOp

\* C4 amended: a second _mainify of a re-homed object raises nothing, asks for
\* the source again and binds the name to a NEW object that is equivalent to
\* the one bound after the first call (same name, kind, behaviour, module of
\* origin __main__), every other binding staying as it was; and _mainify of an
\* object of __main__ is a no-op.
C4_SecondMainifyRebindsEquivalent ==
    /\ (last.op = "_mainify" /\ AlreadyRehomed(last.obj)) =>
          LET n == Before(last.obj).name
          IN /\ exc = NoExc
             /\ main[n] # last.main0[n]
             /\ main[n] \notin DOMAIN last.heap0
             /\ Equivalent(heap[main[n]], Before(last.main0[n]))
             /\ heap[main[n]].module = MAIN
             /\ \A m \in Names \ {n} : main[m] = last.main0[m]
             /\ Positions({"getsource"}) # {}
    /\ MainifyOfMainIsNoOp

C4_Witness ==
    /\ last.op = "_mainify" /\ last.obj = idGreeting1
    /\ AlreadyRehomed(idGreeting1)
    /\ exc = NoExc

C4_WitnessNoOp ==
    /\ last.op = "_mainify" /\ last.obj > Len(Originals)
    /\ Before(last.obj).module = MAIN

-----------------------------------------------------------------------------
(* C5 *)

\* C5: _mainify of an object of another module whose source cannot be
\* retrieved fails with the source facility's error, which reaches the caller;
\* a factory call of either variant whose list holds such an object at any
\* position fails with it too and returns no instance at all.
C5_SourceUnavailablePropagates ==
    /\ (last.op = "_mainify" /\ NoSource(last.obj)) =>
          /\ exc = "OSError"
          /\ ret = NoObj
          /\ main = last.main0
    /\ (IsFactory /\ \E i \in 1..Len(last.greetings) : NoSource(last.greetings[i])) =>
          /\ exc = "OSError"
          /\ ret = NoObj

C5_Witness ==
    /\ last.op = "GreeterB"
    /\ last.greetings = <<idGreeting1, idNoSource>>
    /\ exc = "OSError"
    /\ ret = NoObj

-----------------------------------------------------------------------------
(* C6 *)

\* C6 as claimed: from the same __main__ and the same provider list, the
\* instance Variant A (Greeter.dillable(greetings), greeter2) returns and the
\* instance Variant B (Greeter(greetings), greeter3) returns write the same
\* lines on greet(): whichever of the two was called, the other one, run from
\* the state the call started in, returns too and greets alike.
C6_VariantsGreetAlike ==
    /\ (last.op = "dillable" /\ Returned /\ last.greeted) =>
          LET b == call(Pre, idB, last.greetings)
          IN b.exc = NoExc /\ b.val.has /\ out = greet(b.heap, b.val.greetings)
    /\ (last.op = "GreeterB" /\ Returned /\ last.greeted) =>
          LET a == dillable(Pre, idA, last.greetings)
          IN a.exc = NoExc /\ a.val.has /\ out = greet(a.heap, a.val.greetings)

\* where the code does keep the promise: Variant B called on a class that is
\* not yet the top-level one
C6_HoldsUnlessCalledOnTopLevelHook ==
    /\ (last.op = "dillable" /\ Returned /\ last.greeted) =>
          LET b == call(Pre, idB, last.greetings)
          IN b.exc = NoExc /\ b.val.has /\ out = greet(b.heap, b.val.greetings)
    /\ (last.op = "GreeterB" /\ Before(last.cls).module # MAIN
          /\ Returned /\ last.greeted) =>
          LET a == dillable(Pre, idA, last.greetings)
          IN a.exc = NoExc /\ a.val.has /\ out = greet(a.heap, a.val.greetings)

-----------------------------------------------------------------------------
(* C7 *)

\* C7: no operation removes a name from __main__: a name bound before a step
\* is bound after it.
C7_NamesOnlyGrow ==
    [][\A n \in Names : main[n] # Unbound => main'[n] # Unbound]_vars

\* a factory call that failed half-way and still added names
C7_Witness ==
    /\ IsFactory /\ exc = "OSError"
    /\ \E n \in Names : last.main0[n] = Unbound /\ main[n] # Unbound
    /\ \E n \in Names : last.main0[n] # Unbound

-----------------------------------------------------------------------------
(* C8 *)

\* C8: Greeter.__new__(cls) without providers calls _mainify on nothing,
\* leaves __main__ as it was, and returns a new instance of exactly cls on
\* which __init__ has not run, so it stores no provider sequence.
C8_NewWithoutProvidersSkipsRehoming ==
    (last.op = "__new__") =>
        /\ Returned
        /\ Positions({"_mainify", "getsource", "exec", "getattr", "__init__"}) = {}
        /\ main = last.main0
        /\ heap = last.heap0
        /\ ret.cls = last.cls
        /\ ~ret.has
        /\ Positions({"object.__new__"}) # {}

\* called on the module's class while __main__ binds another Greeter
C8_Witness ==
    /\ last.op = "__new__" /\ last.cls = idB
    /\ main["Greeter"] \notin {Unbound, idB}
    /\ ret.cls = idB

-----------------------------------------------------------------------------
(* C9 *)

ProviderNames == {Before(p).name : p \in Providers}

\* Variant A: the providers are re-homed in list order, then the class, and all
\* of that before any lookup and before the instance is made
OrderA ==
    /\ IsPrefix(Ids(OfOps({"_mainify"})), last.greetings \o <<last.cls>>)
    /\ Returned => Ids(OfOps({"_mainify"})) = last.greetings \o <<last.cls>>
    /\ Before2(Positions({"_mainify"}), Positions({"getattr", "object.__new__", "__init__"}))

\* Variant B with providers: the class is re-homed and looked up, then the
\* instance is allocated, then the providers are re-homed in list order, then
\* looked up, and only then is the instance initialised
OrderB ==
    LET providerLookups == {i \in Positions({"getattr"}) : events[i].name \in ProviderNames}
        classLookups == {i \in Positions({"getattr"}) : events[i].name \notin ProviderNames}
        alloc == Positions({"object.__new__"})
        rehomings == Positions({"_mainify"})
    IN /\ IsPrefix(Ids(OfOps({"_mainify"})), <<last.cls>> \o last.greetings)
       /\ Returned => Ids(OfOps({"_mainify"})) = <<last.cls>> \o last.greetings
       /\ Before2({1}, alloc) /\ Before2(classLookups, alloc)
       /\ alloc # {} => events[1].op = "_mainify" /\ classLookups # {}
       /\ \A i \in alloc : /\ events[i].id = main[Before(last.cls).name]
                          /\ heap[events[i].id].module = MAIN
       /\ Before2(alloc, rehomings \ {1})
       /\ Before2(rehomings, providerLookups)
       /\ Before2(rehomings \cup providerLookups, Positions({"__init__"}))

\* C9: the re-homing steps of a factory call happen in the order of the code:
\* Variant A re-homes providers, then the class, then looks up and constructs;
\* Variant B re-homes and redirects the class, allocates, re-homes providers,
\* looks them up and initialises; no provider is looked up before the last
\* one has been re-homed.
C9_RehomingOrder ==
    /\ last.op = "dillable" => OrderA
    /\ last.op = "GreeterB" => OrderB
    /\ IsFactory =>
          Before2(Positions({"_mainify"}),
                  {i \in Positions({"getattr"}) : events[i].name \in ProviderNames})

C9_Witness ==
    /\ last.op = "GreeterB" /\ last.cls = idB /\ Returned
    /\ last.greetings = <<idGreeting2, idGreeting1>>
    /\ Ids(OfOps({"_mainify"})) = <<idB, idGreeting2, idGreeting1>>

C9_WitnessA ==
    /\ last.op = "dillable" /\ last.cls = idA /\ Returned
    /\ Ids(OfOps({"_mainify"})) = <<idGreeting2, idGreeting1, idA>>

-----------------------------------------------------------------------------
(* C10 *)

\* C10 as claimed: the instance a factory returns stores n providers and its
\* greet() writes the texts of the ORIGINAL providers in the original order,
\* whatever names the providers and __main__ share.
C10_FactoryGreetsLikeOriginals ==
    (IsFactory /\ Returned /\ last.greeted) =>
        /\ Len(ret.greetings) = Len(last.greetings)
        /\ out = Texts(last.greetings)

\* no two distinct providers of the list share a name, and a provider of
\* __main__ is the object __main__ binds to its name
NoNameClash(gs) ==
    /\ \A i, j \in 1..Len(gs) : gs[i] # gs[j] => Before(gs[i]).name # Before(gs[j]).name
    /\ \A i \in 1..Len(gs) :
          Before(gs[i]).module = MAIN => last.main0[Before(gs[i]).name] = gs[i]

\* C10 amended: provided no two distinct providers of the list share a name
\* and every provider of the list that is defined in __main__ is the object
\* bound to its name there, the instance a factory returns stores n providers
\* and its greet() writes the original providers' texts in the original order.
C10_FactoryGreetsLikeOriginalsUnlessClash ==
    (IsFactory /\ Returned /\ last.greeted /\ NoNameClash(last.greetings)) =>
        /\ Len(ret.greetings) = Len(last.greetings)
        /\ out = Texts(last.greetings)

C10_Witness ==
    /\ last.op = "dillable" /\ Returned /\ last.greeted
    /\ last.greetings = <<idMain2, idGreeting1>>
    /\ NoNameClash(last.greetings)
    /\ out = <<"Hey!", "Booyaa!">>

====
